---- MODULE Spec2Model ----
(***************************************************************************)
(* Model of the klines proxy of src/main.py: one request to                *)
(* GET /oanda/api/v1/klines, handled by get_klines step by step:           *)
(* instrument lookup, date range, interval parsing, the upstream POST,     *)
(* JSON decoding and the transformation to Binance kline rows.             *)
(*                                                                         *)
(* Representation.  A Python str is a sequence of characters, each         *)
(* character a one-character TLA+ string; a non-ASCII character is written *)
(* by its code point ("U+00B2" is SUPERSCRIPT TWO).  A JSON value is a     *)
(* record [k, n, fr, s, items]: k is the Python type after                 *)
(* response.json() ("int", "float", "str", "null", "list"); an int is n;   *)
(* a float is n "." fr (integer part and fraction digits); a str is s; a   *)
(* list is items.  Python integers beyond 32 bits (epoch milliseconds) are *)
(* kept as [hi, lo] with value hi * 10^6 + lo and 0 <= lo < 10^6.          *)
(***************************************************************************)
EXTENDS Integers, Sequences, FiniteSets, TLC

\* ------------------------------------------------------------------ bounds
MaxLen == 2

\* ------------------------------------------------------- Python primitives
DigitChars == <<"0", "1", "2", "3", "4", "5", "6", "7", "8", "9">>

AsciiDigits == {DigitChars[i] : i \in 1..10}

\* Characters outside 0-9 for which str.isdigit() is True (Unicode category
\* No/Nd with a digit value): SUPERSCRIPT TWO, ARABIC-INDIC DIGIT THREE.
UnicodeDigits == {"U+00B2", "U+0663"}

\* str.isdigit applied to one character
IsDigit(c) == c \in AsciiDigits \cup UnicodeDigits

DigitValue(c) == (CHOOSE i \in 1..10 : DigitChars[i] = c) - 1

RECURSIVE NatToChars(_)
NatToChars(n) ==
    IF n < 10 THEN <<DigitChars[n + 1]>>
    ELSE NatToChars(n \div 10) \o <<DigitChars[(n % 10) + 1]>>

\* str(n) for a Python int
IntToChars(n) == IF n < 0 THEN <<"-">> \o NatToChars(0 - n) ELSE NatToChars(n)

RECURSIVE DigitsToChars(_)
DigitsToChars(ds) ==
    IF ds = <<>> THEN <<>>
    ELSE <<DigitChars[Head(ds) + 1]>> \o DigitsToChars(Tail(ds))

RECURSIVE CharsToNat(_, _)
CharsToNat(cs, acc) ==
    IF cs = <<>> THEN acc
    ELSE CharsToNat(Tail(cs), acc * 10 + DigitValue(Head(cs)))

\* n zero-padded to at least w characters (strftime's %m, %d, %H, %M, %S, %Y)
RECURSIVE Pad(_, _)
Pad(cs, w) == IF Len(cs) >= w THEN cs ELSE Pad(<<"0">> \o cs, w)

\* ------------------------------------------------------------- JSON values
JInt(n) == [k |-> "int", n |-> n, fr |-> <<>>, s |-> <<>>, items |-> <<>>]
JFloat(ip, frac) == [k |-> "float", n |-> ip, fr |-> frac, s |-> <<>>, items |-> <<>>]
JStr(cs) == [k |-> "str", n |-> 0, fr |-> <<>>, s |-> cs, items |-> <<>>]
JNull == [k |-> "null", n |-> 0, fr |-> <<>>, s |-> <<>>, items |-> <<>>]
JList(xs) == [k |-> "list", n |-> 0, fr |-> <<>>, s |-> <<>>, items |-> xs]

\* The outcome of a Python expression: a value, or the exception it raises
\* with the text of str(e).
Ok(v) == [exc |-> "none", msg |-> "", val |-> v]
Raise(e, m) == [exc |-> e, msg |-> m, val |-> <<>>]

\* int(x): int -> itself; float -> truncated; str -> parsed as a decimal
\* literal with an optional sign, ValueError otherwise; None/list -> TypeError.
\* (Floats here are non-negative and texts carry no blanks or underscores.)
PyInt(x) ==
    CASE x.k = "int" -> Ok(x.n)
      [] x.k = "float" -> Ok(x.n)
      [] x.k = "str" ->
            LET signed == x.s # <<>> /\ Head(x.s) \in {"-", "+"}
                body == IF signed THEN Tail(x.s) ELSE x.s
            IN  IF body # <<>> /\ \A i \in 1..Len(body) : body[i] \in AsciiDigits
                THEN Ok(IF signed /\ Head(x.s) = "-"
                        THEN 0 - CharsToNat(body, 0) ELSE CharsToNat(body, 0))
                ELSE Raise("ValueError", "invalid literal for int() with base 10")
      [] OTHER -> Raise("TypeError", "int() argument must be a string, a bytes-like object or a real number")

\* repr(x) / str(x): the same text except that repr quotes a str; a list
\* prints the repr of its items between brackets.  Neither raises.
RECURSIVE PyRepr(_)
RECURSIVE ReprItems(_)
PyRepr(x) ==
    CASE x.k = "int" -> IntToChars(x.n)
      [] x.k = "float" -> IntToChars(x.n) \o <<".">> \o DigitsToChars(x.fr)
      [] x.k = "str" -> <<"'">> \o x.s \o <<"'">>
      [] x.k = "null" -> <<"N", "o", "n", "e">>
      [] OTHER -> <<"[">> \o ReprItems(x.items) \o <<"]">>

ReprItems(xs) ==
    IF xs = <<>> THEN <<>>
    ELSE IF Len(xs) = 1 THEN PyRepr(xs[1])
    ELSE PyRepr(Head(xs)) \o <<",", " ">> \o ReprItems(Tail(xs))

PyStr(x) == IF x.k = "str" THEN x.s ELSE PyRepr(x)

\* iter(x) with a text taken as one element instead of its characters
PyIterWholeText(x) ==
    CASE x.k = "list" -> Ok(x.items)
      [] x.k = "str" -> Ok(<<x>>)
      [] OTHER -> Raise("TypeError", "object is not iterable")

\* iter(x): a list yields its items, a str its characters (each a str of
\* length one); anything else is not iterable.
PyIter(x) ==
    CASE x.k = "list" -> Ok(x.items)
      [] x.k = "str" -> Ok([i \in 1..Len(x.s) |-> JStr(<<x.s[i]>>)])
      [] OTHER -> Raise("TypeError", "object is not iterable")

\* n * 1000 as a wide integer [hi, lo]
TimesThousand(n) == [hi |-> n \div 1000, lo |-> (n % 1000) * 1000]

\* ------------------------------------------------------------ date handling
\* An optional int query parameter: None, or the wide integer hi * 10^6 + lo.
None == [some |-> FALSE, hi |-> 0, lo |-> 0]
Ms(hi, lo) == [some |-> TRUE, hi |-> hi, lo |-> lo]

\* Python truthiness of an Optional[int]: None and 0 are falsy
Truthy(t) == t.some /\ ~(t.hi = 0 /\ t.lo = 0)

\* floor(t / 1000) as a wide integer (epoch seconds)
WideSeconds(t) ==
    [hi |-> t.hi \div 1000, lo |-> (t.hi % 1000) * 1000 + t.lo \div 1000]

WideAdd(w, d) ==
    [hi |-> w.hi + (w.lo + d) \div 1000000, lo |-> (w.lo + d) % 1000000]

WideLeq(a, b) == a.hi < b.hi \/ (a.hi = b.hi /\ a.lo <= b.lo)

\* datetime.min and datetime.max as seconds since the epoch
\* (0001-01-01 00:00:00 = -62135596800, 9999-12-31 23:59:59 = 253402300799)
DatetimeMin == [hi |-> 0 - 62136, lo |-> 403200]
DatetimeMax == [hi |-> 253402, lo |-> 300799]

\* datetime.fromtimestamp(t / 1000) in the zone at offset tzo seconds: the
\* naive local time in seconds, or ValueError when the year is outside 1..9999.
FromTimestamp(t, tzo) ==
    LET loc == WideAdd(WideSeconds(t), tzo)
    IN  IF WideLeq(DatetimeMin, loc) /\ WideLeq(loc, DatetimeMax)
        THEN Ok(loc.hi * 1000000 + loc.lo)
        ELSE Raise("ValueError", "year is out of range")

\* timedelta(days=30) in seconds
ThirtyDays == 30 * 86400

\* the proleptic Gregorian date of day number z (days since 1970-01-01)
CivilFromDays(z0) ==
    LET z == z0 + 719468
        era == z \div 146097
        doe == z - era * 146097
        yoe == (doe - doe \div 1460 + doe \div 36524 - doe \div 146096) \div 365
        doy == doe - (365 * yoe + yoe \div 4 - yoe \div 100)
        mp == (5 * doy + 2) \div 153
        d == doy - (153 * mp + 2) \div 5 + 1
        m == IF mp < 10 THEN mp + 3 ELSE mp - 9
    IN  [year |-> yoe + era * 400 + (IF m <= 2 THEN 1 ELSE 0), month |-> m, day |-> d]

\* dt.strftime('%Y-%m-%d %H:%M:%S') of the naive datetime at loc seconds
\* (years of four digits)
Strftime(loc) ==
    LET date == CivilFromDays(loc \div 86400)
        sod == loc % 86400
    IN  Pad(NatToChars(date.year), 4) \o <<"-">> \o Pad(NatToChars(date.month), 2)
        \o <<"-">> \o Pad(NatToChars(date.day), 2) \o <<" ">>
        \o Pad(NatToChars(sod \div 3600), 2) \o <<":">>
        \o Pad(NatToChars((sod % 3600) \div 60), 2) \o <<":">>
        \o Pad(NatToChars(sod % 60), 2)

\* --------------------------------------------------- Instrument Directory
\* script_df: the rows of api-scrip-master.csv in file order.  Two rows share
\* the trading symbol "ABC".
script_df ==
    << [tradingSymbol |-> "ABC", securityId |-> 1333,
        exchangeSegment |-> "NSE_EQ", instrument |-> "EQUITY"],
       [tradingSymbol |-> "INFY", securityId |-> 1594,
        exchangeSegment |-> "NSE_EQ", instrument |-> "EQUITY"],
       [tradingSymbol |-> "ABC", securityId |-> 500180,
        exchangeSegment |-> "BSE_EQ", instrument |-> "INDEX"] >>

NoRow == [tradingSymbol |-> "", securityId |-> 0,
          exchangeSegment |-> "", instrument |-> ""]

\* script_df[script_df['tradingSymbol'] == symbol]: the matching rows, in order
Matching(symbol) == SelectSeq(script_df, LAMBDA r : r.tradingSymbol = symbol)

\* the last matching row instead of the first
LastRow(rows) == rows[Len(rows)]

\* instrument_details.iloc[0]
FirstRow(rows) == rows[1]

\* ----------------------------------------------------------- request inputs
Symbols == {"ABC", "abc", "INFY", "XYZ"}

Intervals ==
    { <<"5", "m">>, <<"1", "d">>, <<"x", "y", "z">>, <<>>,
      <<"1", "h", "3", "0", "m">>, <<"5", "U+00B2">>, <<"U+00B2", "m">> }

\* None, 0, 1700000000000, 1700086400000, 10^15 (year 33658)
StartTimes == {None, Ms(0, 0), Ms(1700000, 0), Ms(1000000000, 0)}
EndTimes == {None, Ms(0, 0), Ms(1700086, 400000), Ms(1000000000, 0)}

\* UTC and Asia/Kolkata
TzOffsets == {0, 19800}

\* readings of datetime.now(), seconds since the epoch
NowValues == {1700000000, 1709251199}

\* ------------------------------------------------------------ HTTP results
Detail(text, sym, chars, err) ==
    [text |-> text, sym |-> sym, chars |-> chars, err |-> err]

NoDetail == Detail("", "", <<>>, "")

\* raise HTTPException(status_code, detail): a JSON body {"detail": ...}
HTTPException(code, detail) ==
    [status |-> code, detail |-> detail, rows |-> <<>>, hasRows |-> FALSE,
     escaped |-> "none"]

\* an exception that leaves get_klines: the server answers a bare
\* 500 Internal Server Error with no detail
Uncaught(exc) ==
    [status |-> 500, detail |-> NoDetail, rows |-> <<>>, hasRows |-> FALSE,
     escaped |-> exc]

\* return binance_format_data: 200 with the rows as the body
Returned(rows) ==
    [status |-> 200, detail |-> NoDetail, rows |-> rows, hasRows |-> TRUE,
     escaped |-> "none"]

NoResult ==
    [status |-> 0, detail |-> NoDetail, rows |-> <<>>, hasRows |-> FALSE,
     escaped |-> "none"]

NoPayload ==
    [securityId |-> <<>>, exchangeSegment |-> "", instrument |-> "",
     interval |-> <<>>, fromDate |-> <<>>, toDate |-> <<>>]

\* ------------------------------------------------------- upstream responses
\* the keys read from dhan_data, in the order the zip() call reads them
Keys == <<"timestamp", "open", "high", "low", "close", "volume">>

KeySet == {Keys[i] : i \in 1..6}

\* A well-formed column of n candles, one minute apart.
GoodColumn(key, n) ==
    JList([i \in 1..n |->
        CASE key = "timestamp" -> JInt(1700000000 + 60 * (i - 1))
          [] key = "open" -> JFloat(99 + i, <<5>>)
          [] key = "high" -> JInt(100 + i)
          [] key = "low" -> JFloat(98 + i, <<8>>)
          [] key = "close" -> JFloat(99 + i, <<9>>)
          [] OTHER -> JInt(2000 * i)])

\* A decoded JSON body: an object with the keys in `present`, or a top-level
\* array / null (k = "list" / "null").
Body(kind, present, cols) == [k |-> kind, present |-> present, cols |-> cols]

GoodBody(n) == Body("dict", KeySet, [key \in KeySet |-> GoodColumn(key, n)])

\* bodies whose columns differ in length
RaggedBodies ==
    { Body("dict", KeySet,
           [key \in KeySet |->
               CASE key = "timestamp" -> GoodColumn(key, a)
                 [] key = "open" -> GoodColumn(key, b)
                 [] key = "volume" -> GoodColumn(key, c)
                 [] OTHER -> GoodColumn(key, MaxLen)]) :
        a \in 0..MaxLen, b \in 0..MaxLen, c \in 0..MaxLen }

\* what a timestamp slot may hold: int, float, numeric text, other text, null
TimestampValues ==
    { JInt(1700000000), JFloat(1700000060, <<7>>),
      JStr(<<"1", "7", "0", "0", "0", "0", "0", "1", "2", "0">>),
      JStr(<<"a", "b", "c">>), JNull }

RECURSIVE SeqsUpTo(_, _)
SeqsUpTo(S, n) ==
    IF n = 0 THEN {<<>>}
    ELSE LET shorter == SeqsUpTo(S, n - 1)
         IN  shorter \cup {Append(q, x) : q \in shorter, x \in S}

\* timestamp columns of every content, beside full columns or a one-candle
\* open column
MixedTimestampBodies ==
    { [GoodBody(MaxLen) EXCEPT !.cols["timestamp"] = JList(q),
                               !.cols["open"] = GoodColumn("open", b)] :
        q \in SeqsUpTo(TimestampValues, MaxLen), b \in {1, MaxLen} }

MissingKeyBodies ==
    { [GoodBody(MaxLen) EXCEPT !.present = KeySet \ {key}] : key \in KeySet }

\* a column that is a text or a number instead of an array
ScalarColumnBodies ==
    { [GoodBody(1) EXCEPT !.cols[key] = v] :
        key \in KeySet, v \in {JStr(<<"9", "9", ".", "8">>), JInt(5), JNull} }

NonObjectBodies ==
    { Body("list", {}, GoodBody(0).cols), Body("null", {}, GoodBody(0).cols) }

Bodies ==
    RaggedBodies \cup MixedTimestampBodies \cup MissingKeyBodies
        \cup ScalarColumnBodies \cup NonObjectBodies

\* What requests.post(...) meets: a transport failure (err is str(e)), or a
\* response with a status code and a body that is valid JSON (data) or not.
TransportFailure(err) ==
    [kind |-> "transport", err |-> err, status |-> 0, json |-> FALSE,
     data |-> GoodBody(0)]

Response(status, json, data) ==
    [kind |-> "response", err |-> "", status |-> status, json |-> json,
     data |-> data]

NoUpstream == [kind |-> "none", err |-> "", status |-> 0, json |-> FALSE,
               data |-> GoodBody(0)]

\* dhan_data before line 99 has bound it
NoData == Body("unbound", {}, GoodBody(0).cols)

StatusCodes == {200, 304, 404, 503}

UpstreamOutcomes ==
    { TransportFailure(e) : e \in {"Connection refused", "Read timed out"} }
        \cup { Response(200, TRUE, b) : b \in Bodies }
        \cup { Response(c, FALSE, GoodBody(0)) : c \in StatusCodes }
        \cup { Response(c, TRUE, GoodBody(1)) : c \in StatusCodes \ {200} }

\* ------------------------------------------------------ Response Transcoder
\* dhan_data[key]: KeyError on an object without the key, TypeError when
\* dhan_data is an array or null.
Subscript(data, key) ==
    IF data.k # "dict" THEN Raise("TypeError", "indices must be integers")
    ELSE IF key \notin data.present THEN Raise("KeyError", key)
    ELSE Ok(data.cols[key])

\* the row with str(l) and str(h) in each other's place
KlineRowSwapped(ts, o, h, l, c, v) ==
    LET t == PyInt(ts)
    IN  IF t.exc # "none" THEN t
        ELSE Ok([openTime |-> TimesThousand(t.val), open |-> PyStr(o),
                 high |-> PyStr(l), low |-> PyStr(h), close |-> PyStr(c),
                 volume |-> PyStr(v)])

\* one element of the list comprehension of lines 119-129; the six-element
\* list is kept as a record, openTime being element 0
KlineRow(ts, o, h, l, c, v) ==
    LET t == PyInt(ts)
    IN  IF t.exc # "none" THEN t
        ELSE Ok([openTime |-> TimesThousand(t.val), open |-> PyStr(o),
                 high |-> PyStr(h), low |-> PyStr(l), close |-> PyStr(c),
                 volume |-> PyStr(v)])

\* The comprehension over zip(...): its[i] is what is left of the i-th
\* iterator.  zip stops as soon as one iterator is exhausted; a row that
\* raises ends the comprehension with that exception.
RECURSIVE Comprehension(_, _)
Comprehension(its, acc) ==
    IF \E i \in 1..6 : its[i] = <<>> THEN Ok(acc)
    ELSE LET row == KlineRow(Head(its[1]), Head(its[2]), Head(its[3]),
                             Head(its[4]), Head(its[5]), Head(its[6]))
         IN  IF row.exc # "none" THEN row
             ELSE Comprehension([i \in 1..6 |-> Tail(its[i])],
                                Append(acc, row.val))

\* the first exception among outcomes, in evaluation order, or Ok of all values
RECURSIVE FirstFailure(_, _)
FirstFailure(outs, i) ==
    IF i > Len(outs) THEN Ok([j \in 1..Len(outs) |-> outs[j].val])
    ELSE IF outs[i].exc # "none" THEN outs[i]
    ELSE FirstFailure(outs, i + 1)

\* the body of the try block of lines 107-130
Transcode(data) ==
    LET args == FirstFailure([i \in 1..6 |-> Subscript(data, Keys[i])], 1)
    IN  IF args.exc # "none" THEN args
        ELSE LET iters == FirstFailure([i \in 1..6 |-> PyIter(args.val[i])], 1)
             IN  IF iters.exc # "none" THEN iters
                 ELSE Comprehension(iters.val, <<>>)

\* the exceptions the except clause of line 131 names
TransformCaught == {"KeyError", "TypeError"}

\* names bound by the import statements of lines 2-8
ImportedNames ==
    {"os", "pd", "requests", "FastAPI", "HTTPException", "CORSMiddleware",
     "datetime", "timedelta", "traceback"}

\* raise_for_status that lets 5xx through
RaiseForStatusClientOnly(status) ==
    IF 400 <= status /\ status < 500 THEN Raise("HTTPError", "Client Error")
    ELSE Ok(<<>>)

\* response.raise_for_status(): HTTPError for a 4xx or 5xx status
RaiseForStatus(status) ==
    IF 400 <= status /\ status < 500 THEN Raise("HTTPError", "Client Error")
    ELSE IF 500 <= status /\ status < 600 THEN Raise("HTTPError", "Server Error")
    ELSE Ok(<<>>)

\* ------------------------------------------------------------------- state
VARIABLES
    request,          \* symbol, interval, startTime, endTime of the request
    tz,               \* the process's UTC offset in seconds
    pc,               \* the step get_klines is at
    instrument,       \* the selected directory row
    branch,           \* which date-range branch ran
    from_date, to_date,          \* naive local datetimes, in seconds
    from_date_str, to_date_str,
    parsed_interval,
    payload,          \* the JSON body of the POST
    postCount,        \* calls of requests.post made
    upstream,         \* what the POST met
    jsonCalled,       \* response.json() was called
    dhan_data,
    result            \* the HTTP answer of the facade

vars == <<request, tz, pc, instrument, branch, from_date, to_date,
          from_date_str, to_date_str, parsed_interval, payload, postCount,
          upstream, jsonCalled, dhan_data, result>>

Init ==
    /\ request \in [symbol : Symbols, interval : Intervals,
                    startTime : StartTimes, endTime : EndTimes]
    /\ tz \in TzOffsets
    /\ pc = "lookup"
    /\ instrument = NoRow
    /\ branch = "none"
    /\ from_date = 0 /\ to_date = 0
    /\ from_date_str = <<>> /\ to_date_str = <<>>
    /\ parsed_interval = <<>>
    /\ payload = NoPayload
    /\ postCount = 0
    /\ upstream = NoUpstream
    /\ jsonCalled = FALSE
    /\ dhan_data = NoData
    /\ result = NoResult

Finish(res) == pc' = "done" /\ result' = res

\* lines 40-49
Lookup ==
    /\ pc = "lookup"
    /\ LET instrument_details == Matching(request.symbol)
       IN  IF instrument_details = <<>>
           THEN /\ Finish(HTTPException(404,
                       Detail("Instrument with trading symbol '%s' not found.",
                              request.symbol, <<>>, "")))
                /\ UNCHANGED instrument
           ELSE /\ instrument' = FirstRow(instrument_details)
                /\ pc' = "dates"
                /\ UNCHANGED result
    /\ UNCHANGED <<request, tz, branch, from_date, to_date, from_date_str,
                   to_date_str, parsed_interval, payload, postCount, upstream,
                   jsonCalled, dhan_data>>

\* `startTime or endTime`
EitherSupplied(startTime, endTime) == Truthy(startTime) \/ Truthy(endTime)

\* `startTime and endTime` of line 52
BothSupplied(startTime, endTime) == Truthy(startTime) /\ Truthy(endTime)

\* lines 51-60
ResolveDates ==
    /\ pc = "dates"
    /\ \E now \in NowValues :
         IF BothSupplied(request.startTime, request.endTime)
         THEN LET f == FromTimestamp(request.startTime, tz)
                  t == FromTimestamp(request.endTime, tz)
              IN  /\ branch' = "explicit"
                  /\ IF f.exc # "none" \/ t.exc # "none"
                     THEN /\ Finish(Uncaught(IF f.exc # "none" THEN f.exc ELSE t.exc))
                          /\ UNCHANGED <<from_date, to_date, from_date_str, to_date_str>>
                     ELSE /\ from_date' = f.val
                          /\ to_date' = t.val
                          /\ from_date_str' = Strftime(f.val)
                          /\ to_date_str' = Strftime(t.val)
                          /\ pc' = "interval"
                          /\ UNCHANGED result
         ELSE /\ branch' = "default"
              /\ to_date' = now + tz
              /\ from_date' = (now + tz) - ThirtyDays
              /\ from_date_str' = Strftime((now + tz) - ThirtyDays)
              /\ to_date_str' = Strftime(now + tz)
              /\ pc' = "interval"
              /\ UNCHANGED result
    /\ UNCHANGED <<request, tz, instrument, parsed_interval, payload, postCount,
                   upstream, jsonCalled, dhan_data>>

\* a filter that drops white space only, so letters pass as well
FilterNonSpace(interval) == SelectSeq(interval, LAMBDA c : c # " ")

\* ''.join(filter(str.isdigit, interval))
FilterDigits(interval) == SelectSeq(interval, IsDigit)

\* lines 62-68
NormalizeInterval ==
    /\ pc = "interval"
    /\ LET digits == FilterDigits(request.interval)
       IN  IF digits = <<>>
           THEN /\ Finish(HTTPException(400,
                       Detail("Invalid interval format: '%s'", "",
                              request.interval, "")))
                /\ UNCHANGED parsed_interval
           ELSE /\ parsed_interval' = digits
                /\ pc' = "post"
                /\ UNCHANGED result
    /\ UNCHANGED <<request, tz, instrument, branch, from_date, to_date,
                   from_date_str, to_date_str, payload, postCount, upstream,
                   jsonCalled, dhan_data>>

\* lines 77-84
BuildPayload ==
    [securityId |-> IntToChars(instrument.securityId),
     exchangeSegment |-> instrument.exchangeSegment,
     instrument |-> instrument.instrument,
     interval |-> parsed_interval,
     fromDate |-> from_date_str,
     toDate |-> to_date_str]

\* the POST with a retry after a transport failure
PostUpstreamRetry ==
    /\ pc = "post"
    /\ payload' = BuildPayload
    /\ postCount' = postCount + 1
    /\ \E out \in UpstreamOutcomes :
         /\ upstream' = out
         /\ IF out.kind = "transport"
            THEN pc' = "post" /\ UNCHANGED result
            ELSE LET e == RaiseForStatus(out.status)
                 IN  IF e.exc # "none"
                     THEN Finish(HTTPException(500,
                              Detail("Error calling DhanHQ API: %s", "", <<>>, e.msg)))
                     ELSE pc' = "json" /\ UNCHANGED result
    /\ UNCHANGED <<request, tz, instrument, branch, from_date, to_date,
                   from_date_str, to_date_str, parsed_interval, jsonCalled,
                   dhan_data>>

\* lines 70-96: one requests.post, then raise_for_status
PostUpstream ==
    /\ pc = "post"
    /\ payload' = BuildPayload
    /\ postCount' = postCount + 1
    /\ \E out \in UpstreamOutcomes :
         /\ upstream' = out
         /\ LET e == IF out.kind = "transport"
                     THEN Raise("ConnectionError", out.err)
                     ELSE RaiseForStatus(out.status)
            IN  IF e.exc # "none"
                THEN Finish(HTTPException(500,
                         Detail("Error calling DhanHQ API: %s", "", <<>>, e.msg)))
                ELSE pc' = "json" /\ UNCHANGED result
    /\ UNCHANGED <<request, tz, instrument, branch, from_date, to_date,
                   from_date_str, to_date_str, parsed_interval, jsonCalled,
                   dhan_data>>

\* The except clause of line 100 evaluates json.JSONDecodeError when an
\* exception reaches it: NameError unless the name json is bound.
DecodeFailure ==
    IF "json" \in ImportedNames
    THEN HTTPException(500,
             Detail("Error decoding JSON response from DhanHQ API: %s", "", <<>>,
                    "Expecting value"))
    ELSE Uncaught("NameError")

\* lines 98-104
DecodeJson ==
    /\ pc = "json"
    /\ jsonCalled' = TRUE
    /\ IF upstream.json
       THEN /\ dhan_data' = upstream.data
            /\ pc' = "transform"
            /\ UNCHANGED result
       ELSE /\ Finish(DecodeFailure)
            /\ UNCHANGED dhan_data
    /\ UNCHANGED <<request, tz, instrument, branch, from_date, to_date,
                   from_date_str, to_date_str, parsed_interval, payload,
                   postCount, upstream>>

\* lines 106-135
TransformResult(data) ==
    LET out == Transcode(data)
    IN  IF out.exc = "none" THEN Returned(out.val)
        ELSE IF out.exc \in TransformCaught
        THEN HTTPException(500,
                 Detail("Failed to parse DhanHQ response: %s", "", <<>>, out.msg))
        ELSE Uncaught(out.exc)

Transform ==
    /\ pc = "transform"
    /\ Finish(TransformResult(dhan_data))
    /\ UNCHANGED <<request, tz, instrument, branch, from_date, to_date,
                   from_date_str, to_date_str, parsed_interval, payload,
                   postCount, upstream, jsonCalled, dhan_data>>

Next ==
    \/ Lookup
    \/ ResolveDates
    \/ NormalizeInterval
    \/ PostUpstream
    \/ DecodeJson
    \/ Transform

Spec == Init /\ [][Next]_vars

\* ------------------------------------------------------------------ claims
Done == pc = "done"

Transformed == Done /\ dhan_data.k # "unbound"

Column(key) == dhan_data.cols[key]

\* the upstream response holds the six keys, each a JSON array
SixSequences ==
    /\ dhan_data.k = "dict"
    /\ dhan_data.present = KeySet
    /\ \A key \in KeySet : Column(key).k = "list"

ShortestLength ==
    CHOOSE n \in 0..(MaxLen + 1) :
        /\ \A key \in KeySet : n <= Len(Column(key).items)
        /\ \E key \in KeySet : n = Len(Column(key).items)

\* w is exactly n * 1000
IsThousandTimes(w, n) == w.lo % 1000 = 0 /\ w.hi * 1000 + w.lo \div 1000 = n

\* C1: when the upstream response holds the six sequences and int() is
\* defined on the timestamps below the shortest length, get_klines returns
\* exactly min(len) rows and row i is [int(timestamp[i]) * 1000,
\* str(open[i]), str(high[i]), str(low[i]), str(close[i]), str(volume[i])].
C1_RowsFollowShortestColumn ==
    (Transformed /\ SixSequences
        /\ \A i \in 1..ShortestLength : PyInt(Column("timestamp").items[i]).exc = "none")
    => /\ result.status = 200
       /\ result.hasRows
       /\ Len(result.rows) = ShortestLength
       /\ \A i \in 1..ShortestLength :
            /\ IsThousandTimes(result.rows[i].openTime,
                               PyInt(Column("timestamp").items[i]).val)
            /\ result.rows[i].open = PyStr(Column("open").items[i])
            /\ result.rows[i].high = PyStr(Column("high").items[i])
            /\ result.rows[i].low = PyStr(Column("low").items[i])
            /\ result.rows[i].close = PyStr(Column("close").items[i])
            /\ result.rows[i].volume = PyStr(Column("volume").items[i])

\* C1 witness: rows were returned from columns of different lengths, the
\* timestamp column being longer than the result and holding, past the
\* shortest length, a value int() rejects
C1_Witness ==
    /\ Transformed /\ SixSequences /\ result.hasRows
    /\ Len(result.rows) >= 1
    /\ Len(Column("timestamp").items) > Len(result.rows)
    /\ PyInt(Column("timestamp").items[Len(result.rows) + 1]).exc # "none"
    /\ result.rows[1].openTime = [hi |-> 1700000, lo |-> 0]
    /\ result.rows[1].open = <<"1", "0", "0", ".", "5">>

\* C2: when the upstream answers 2xx with a body that is not valid JSON, the
\* request ends with HTTP 500 raised by the handler's JSON-decode branch,
\* with a detail describing the decode error, and no exception escapes
\* get_klines.
C2_DecodeErrorIsCaught ==
    (Done /\ jsonCalled /\ upstream.status \in 200..299 /\ ~upstream.json)
    => /\ result.escaped = "none"
       /\ result.status = 500
       /\ result.detail.text = "Error decoding JSON response from DhanHQ API: %s"
       /\ result.detail.err # ""

\* a timestamp at a position that the six sequences all have cannot be
\* coerced by int()
SomeTimestampNotCoercible ==
    /\ SixSequences
    /\ \E i \in 1..ShortestLength :
          PyInt(Column("timestamp").items[i]).exc # "none"

\* C3: when a key is absent from the upstream response or a value cannot be
\* coerced to its target type, the request ends with HTTP 500 whose detail
\* begins 'Failed to parse DhanHQ response', and no row is returned.
C3_TranscodeFailureIs500WithDetail ==
    (Transformed /\ (dhan_data.present # KeySet \/ SomeTimestampNotCoercible))
    => /\ result.status = 500
       /\ result.escaped = "none"
       /\ result.detail.text = "Failed to parse DhanHQ response: %s"
       /\ ~result.hasRows
       /\ result.rows = <<>>

\* the response {"timestamp":[1700000000],"open":[100.5],"high":[101],
\* "low":"99.8","close":[100.9],"volume":[2000]}
MismatchedExample ==
    Body("dict", KeySet,
         [key \in KeySet |->
             CASE key = "timestamp" -> JList(<<JInt(1700000000)>>)
               [] key = "open" -> JList(<<JFloat(100, <<5>>)>>)
               [] key = "high" -> JList(<<JInt(101)>>)
               [] key = "low" -> JStr(<<"9", "9", ".", "8">>)
               [] key = "close" -> JList(<<JFloat(100, <<9>>)>>)
               [] OTHER -> JList(<<JInt(2000)>>)])

ExampleRow(low) ==
    [openTime |-> [hi |-> 1700000, lo |-> 0],
     open |-> <<"1", "0", "0", ".", "5">>,
     high |-> <<"1", "0", "1">>,
     low |-> low,
     close |-> <<"1", "0", "0", ".", "9">>,
     volume |-> <<"2", "0", "0", "0">>]

\* C4 as stated: for the mismatched example the transcoder produces exactly
\* one row [1700000000000, "100.5", "101", "99.8", "100.9", "2000"].
C4_LowIsWholeText ==
    (Transformed /\ dhan_data = MismatchedExample)
    => result.rows = <<ExampleRow(<<"9", "9", ".", "8">>)>>

\* C4 amended: for the mismatched example the transcoder answers 200 with
\* exactly one row [1700000000000, "100.5", "101", "9", "100.9", "2000"]: the
\* low field is the first character of the text "99.8".
C4_LowIsFirstCharacter ==
    (Transformed /\ dhan_data = MismatchedExample)
    => /\ result.status = 200
       /\ result.hasRows
       /\ result.rows = <<ExampleRow(<<"9">>)>>

\* C4 witness: the mismatched example was transcoded
C4_Witness ==
    /\ Transformed /\ dhan_data = MismatchedExample
    /\ result.hasRows /\ Len(result.rows) = 1

\* the request's symbol is the tradingSymbol of some directory row
SymbolKnown == \E i \in 1..Len(script_df) : script_df[i].tradingSymbol = request.symbol

\* the first directory row, in file order, whose tradingSymbol is the symbol
FirstMatch ==
    script_df[CHOOSE i \in 1..Len(script_df) :
        /\ script_df[i].tradingSymbol = request.symbol
        /\ \A j \in 1..(i - 1) : script_df[j].tradingSymbol # request.symbol]

NoAsciiDigit == \A i \in 1..Len(request.interval) : request.interval[i] \notin AsciiDigits

NoDigitCharacter == \A i \in 1..Len(request.interval) : ~IsDigit(request.interval[i])

Answered400NamingInterval ==
    /\ result.status = 400
    /\ result.escaped = "none"
    /\ result.detail.text = "Invalid interval format: '%s'"
    /\ result.detail.chars = request.interval

\* C5 as stated: a request whose interval contains no digit is answered 400
\* with a detail naming the interval, for every symbol, startTime and endTime.
C5_NoDigitAlways400 == (Done /\ NoAsciiDigit) => Answered400NamingInterval

\* both bounds are supplied and non-zero, and one is outside the years 1..9999
RangeNotConvertible ==
    /\ Truthy(request.startTime) /\ Truthy(request.endTime)
    /\ \/ FromTimestamp(request.startTime, tz).exc # "none"
       \/ FromTimestamp(request.endTime, tz).exc # "none"

\* C5 amended: a request whose interval contains no character that
\* str.isdigit accepts is answered 404 when its symbol is unknown, ends with
\* an unhandled ValueError when its symbol is known and its supplied range is
\* not convertible, and is answered 400 with a detail naming the interval in
\* every other case; it never reaches the upstream.
C5_NoDigitIs400AfterLookupAndDates ==
    (Done /\ NoDigitCharacter)
    => /\ postCount = 0
       /\ ~SymbolKnown => result.status = 404
       /\ (SymbolKnown /\ RangeNotConvertible) => result.escaped = "ValueError"
       /\ (SymbolKnown /\ ~RangeNotConvertible) => Answered400NamingInterval

\* C5 witness: "xyz" with a known symbol and an explicit range was answered 400
C5_Witness ==
    /\ Done /\ result.status = 400
    /\ request.interval = <<"x", "y", "z">>
    /\ request.symbol = "INFY"
    /\ Truthy(request.startTime) /\ Truthy(request.endTime)

\* C6: a request whose symbol equals no row's tradingSymbol is answered 404
\* with a detail containing the symbol; a request whose symbol matches is
\* never answered 404 and uses the securityId, exchangeSegment and instrument
\* of the first matching row in file order.
C6_LookupFirstMatchOr404 ==
    /\ (pc # "lookup" /\ ~SymbolKnown)
         => /\ Done /\ result.status = 404 /\ result.escaped = "none"
            /\ result.detail.sym = request.symbol
            /\ result.detail.text = "Instrument with trading symbol '%s' not found."
            /\ postCount = 0
    /\ (pc # "lookup" /\ SymbolKnown)
         => /\ result.status # 404
            /\ instrument = FirstMatch
            /\ postCount = 1
                 => /\ payload.securityId = IntToChars(FirstMatch.securityId)
                    /\ payload.exchangeSegment = FirstMatch.exchangeSegment
                    /\ payload.instrument = FirstMatch.instrument

\* C6 witness: the symbol of two rows was posted with the first row's fields
C6_Witness ==
    /\ postCount = 1 /\ request.symbol = "ABC"
    /\ payload.securityId = <<"1", "3", "3", "3">>
    /\ payload.exchangeSegment = "NSE_EQ"
    /\ payload.instrument = "EQUITY"

BothGivenNonZero ==
    /\ request.startTime.some /\ request.endTime.some
    /\ request.startTime # Ms(0, 0) /\ request.endTime # Ms(0, 0)

\* the epoch seconds of a supplied bound, shifted to local time
LocalSeconds(t) == t.hi * 1000 + t.lo \div 1000 + tz

\* C7: the explicit range is used if and only if startTime and endTime are
\* both supplied and non-zero; otherwise to = now and from = to - 30 days;
\* in both branches from/to are sent upstream as fromDate/toDate.
C7_DateRangeBranch ==
    /\ branch # "none" => (branch = "explicit" <=> BothGivenNonZero)
    /\ (pc \notin {"lookup", "dates"} /\ SymbolKnown) => branch # "none"
    /\ (pc \in {"interval", "post", "json", "transform"} \/ postCount = 1)
         => /\ branch = "explicit"
                 => /\ from_date = LocalSeconds(request.startTime)
                    /\ to_date = LocalSeconds(request.endTime)
            /\ branch = "default"
                 => /\ \E now \in NowValues : to_date = now + tz
                    /\ to_date - from_date = 2592000
    /\ postCount = 1
         => /\ payload.fromDate = Strftime(from_date)
            /\ payload.toDate = Strftime(to_date)
    /\ (postCount = 1 /\ tz = 0 /\ request.startTime = Ms(1700000, 0)
          /\ request.endTime = Ms(1700086, 400000))
         => /\ payload.fromDate = <<"2", "0", "2", "3", "-", "1", "1", "-", "1", "4",
                                    " ", "2", "2", ":", "1", "3", ":", "2", "0">>
            /\ payload.toDate = <<"2", "0", "2", "3", "-", "1", "1", "-", "1", "5",
                                  " ", "2", "2", ":", "1", "3", ":", "2", "0">>

\* C7 witness: only startTime was supplied and the default window was posted
C7_Witness ==
    /\ postCount = 1 /\ branch = "default"
    /\ Truthy(request.startTime) /\ ~request.endTime.some
    /\ payload.toDate = Strftime(1709251199 + tz)

AsciiDigitsOf(interval) == SelectSeq(interval, LAMBDA c : c \in AsciiDigits)

\* C8: for an interval with at least one decimal digit the interval sent
\* upstream is exactly its characters 0-9 in order, and the normalizer fails
\* (400) exactly when the interval has no decimal digit.
C8_IntervalIsDecimalDigits ==
    /\ (pc \in {"post", "json", "transform"} \/ postCount = 1)
         => /\ ~NoAsciiDigit
            /\ parsed_interval = AsciiDigitsOf(request.interval)
    /\ postCount = 1 => payload.interval = AsciiDigitsOf(request.interval)
    /\ (Done /\ NoAsciiDigit /\ SymbolKnown /\ ~RangeNotConvertible)
         => result.status = 400

FailedUpstream(codes) ==
    \/ upstream.kind = "transport"
    \/ upstream.kind = "response" /\ upstream.status \in codes

NotParsedAnswered500 ==
    /\ Done
    /\ result.status = 500 /\ result.escaped = "none"
    /\ result.detail.text = "Error calling DhanHQ API: %s"
    /\ result.detail.err # ""
    /\ upstream.kind = "transport" => result.detail.err = upstream.err
    /\ ~jsonCalled /\ dhan_data = NoData
    /\ ~result.hasRows /\ result.rows = <<>>

\* C9 as stated: a transport failure or a non-2xx status ends the request with
\* HTTP 500 whose detail contains the error message; the body is never parsed
\* and no rows are returned.
C9_Non2xxIs500 ==
    (postCount = 1 /\ pc # "post" /\ FailedUpstream((100..599) \ (200..299)))
    => NotParsedAnswered500

\* C9 amended: a transport failure or a 4xx or 5xx status ends the request
\* with HTTP 500 whose detail contains the error message; the body is never
\* parsed and no rows are returned.
C9_TransportOr4xx5xxIs500 ==
    (postCount = 1 /\ pc # "post" /\ FailedUpstream(400..599))
    => NotParsedAnswered500

\* C9 witness: a 503 with a JSON body was answered 500
C9_Witness ==
    /\ Done /\ upstream.kind = "response" /\ upstream.status = 503
    /\ upstream.json /\ result.status = 500

\* C10: at most one POST is issued and none follows a failure; a request
\* answered 404 or 400 issues none; the POST comes only after the lookup
\* succeeded and the interval was validated; a request that passed both
\* checks has issued exactly one POST when it responds.
C10_OnePostAfterChecks ==
    /\ [](/\ postCount \in {0, 1}
          /\ result.status \in {404, 400} => postCount = 0
          /\ postCount = 1 => /\ SymbolKnown
                              /\ instrument # NoRow
                              /\ parsed_interval # <<>>
                              /\ pc \in {"json", "transform", "done"}
          /\ (Done /\ instrument # NoRow /\ parsed_interval # <<>>) => postCount = 1)
    /\ [][/\ postCount' # postCount => (pc = "post" /\ postCount = 0 /\ postCount' = 1)
          /\ Done => (Done' /\ postCount' = postCount)]_vars

\* C10 witness: the POST failed in transport and the request ended after one POST
C10_Witness ==
    /\ Done /\ postCount = 1 /\ upstream.kind = "transport"
    /\ result.status = 500

====
